---- MODULE Spec2Model ----
(***************************************************************************)
(* offchat relay server (src/server.js): the in-memory room registry, the  *)
(* codename allocator, broadcast, and the per-socket connection, message   *)
(* and close handlers, with the TTL and manual-destroy grace timers.       *)
(*                                                                         *)
(* Node runs every handler to completion on one thread, so each handler   *)
(* (connection, message, close, timer callback) is one atomic action.      *)
(* Room objects live on a heap indexed by the id of the connection that    *)
(* created them: closures keep referring to a room object after the        *)
(* registry has dropped it.                                                *)
(***************************************************************************)
EXTENDS Integers, Sequences, FiniteSets, TLC

\* ------------------------------------------------------------------ bounds
MaxConns == 3
PoolSize == 1
MaxFrames == 1
MaxTime == 1
MaxBurst == 2
MaxSockets == 2
MaxPending == 2

\* --------------------------------------------------------------- constants
AllCodenames == <<"Phantom", "Specter", "Ghost", "Shadow", "Cipher", "Vector">>
CODENAMES == { AllCodenames[k] : k \in 1..PoolSize }
ALLOWED_TTL == {10, 15, 30}
DEFAULT_TTL == 10
GRACE_MS == 2500
MAX_NAME_LEN == 64
CLOSE_INVALID_ROOM == 4001
CLOSE_AUTH_FAILED == 4003
CLOSE_NO_STATUS == 1005

Null == "<null>"
NaN == -1
NoRoom == 0

Conns == 1..MaxConns
RoomIds == 1..MaxConns

\* ------------------------------------------------------------------ inputs
LongName == "aaaaaaaaaaaaaaaaaaaaaaaaaaaaaaaaaaaaaaaaaaaaaaaaaaaaaaaaaaaaaaaaa"
RoomNames == {"alpha", "beta"}
\* the room name of the requests where one name is enough
JoinNames == {"alpha"}
NameParams == JoinNames \cup {Null, "", LongName}
PwdParams == {Null, "h1", "h2"}
HasPasswordParams == {Null, "1"}
\* The ttl parameter decides nothing but the ttlMs a creation stores, so the
\* n-th request carries a fixed one: an allow-listed value, a non-number, an
\* absent parameter, a number outside the list, another allow-listed value.
TtlParams(ws) ==
  CASE ws = 1 -> {"30"}
    [] ws = 2 -> {"abc"}
    [] ws = 3 -> {Null}
    [] ws = 4 -> {"7"}
    [] OTHER  -> {"15"}
UuidTags == {"0A1B", "9F3C"}
Times == 1..MaxTime

\* ------------------------------------------------------------------- state
VARIABLES
  rooms,       \* the registry: room name -> id of the registered room object, or NoRoom
  room,        \* heap of room objects, by id
  ttlTimers,   \* pending TTL timeouts: timer handle -> the room name its callback captured, or Null
  readyState,  \* per socket: "CONNECTING", "OPEN", "CLOSING", "CLOSED"
  closeCode,   \* per socket: the code the server passed to ws.close, 0 if it has not closed it
  inbox,       \* per socket: the events delivered to the client, in order
  closure,     \* per socket: what the handlers of an admitted connection captured
  nextConn,    \* the next connection to arrive
  graceTimers, \* pending manual-destroy grace timeouts, oldest first
  nframes,     \* number of inbound frames handled so far
  clock,       \* the time in ms, as Date.now() and the timer queue read it
  ttlDue,      \* per pending TTL timeout: the time from which it may fire
  response,    \* the body and status of the last /api/room-info response
  browser      \* one browser client: its script variables, sockets, timers and promises

vars == <<rooms, room, ttlTimers, readyState, closeCode, inbox, closure,
          nextConn, graceTimers, nframes, clock, ttlDue, response, browser>>

\* -------------------------------------------------------------- JS helpers
Truthy(v) == v \notin {Null, ""}

\* url.searchParams.get(k) || dflt
OrDefault(v, dflt) == IF Truthy(v) THEN v ELSE dflt

\* parseInt(s, 10) on the strings the model supplies: the leading integer
\* of the string, NaN when it has none
ParseInt(s) ==
  CASE s = "10" -> 10
    [] s = "15" -> 15
    [] s = "30" -> 30
    [] s = "7"  -> 7
    [] s = "15.5" -> 15
    [] s = "30min" -> 30
    [] OTHER    -> NaN

Size(m) == Cardinality(DOMAIN m)

EmptyMap == [x \in {} |-> Null]

MapSet(m, k, v) == [x \in (DOMAIN m) \cup {k} |-> IF x = k THEN v ELSE m[x]]

MapDelete(m, k) == [x \in (DOMAIN m) \ {k} |-> m[x]]

\* a room object that has not been allocated yet
\* no request has been answered yet
NoResponse == [status |-> 0]

NoRoomObject ==
  [name |-> Null, clients |-> EmptyMap, createdAt |-> 0, ttlMs |-> 0,
   timer |-> 0, usedCodenames |-> {}, passwordHash |-> Null]

NoClosure == [room |-> NoRoom, roomName |-> Null, codename |-> Null]

\* ------------------------------------------------------------------ events
\* (variant: the expiry is computed from the default TTL)
InitEvent_defaultExpiry(cn, n, r) ==
  [type |-> "init", codename |-> cn, participants |-> n,
   expiresAt |-> r.createdAt + DEFAULT_TTL * 60 * 1000, createdAt |-> r.createdAt,
   hasPassword |-> Truthy(r.passwordHash)]

InitEvent(cn, n, r) ==
  [type |-> "init", codename |-> cn, participants |-> n,
   expiresAt |-> r.createdAt + r.ttlMs, createdAt |-> r.createdAt,
   hasPassword |-> Truthy(r.passwordHash)]

\* (variant: the count does not include the joiner)
JoinEvent_countBeforeJoin(cn, n) == [type |-> "join", codename |-> cn, participants |-> n - 1]

JoinEvent(cn, n) == [type |-> "join", codename |-> cn, participants |-> n]

LeaveEvent(cn, n) == [type |-> "leave", codename |-> cn, participants |-> n]

AuthErrorEvent == [type |-> "auth_error", message |-> "wrong password"]

DestroyedEvent == [type |-> "destroyed"]

ManualDestroyedEvent == [type |-> "destroyed", manual |-> TRUE]

\* (variant: a codename field of the frame overrides the assigned codename)
MessageEvent_clientCodename(cn, msg, t) ==
  [type |-> "message", codename |-> IF Truthy(msg.codename) THEN msg.codename ELSE cn,
   encrypted |-> msg.encrypted, iv |-> msg.iv, timestamp |-> t]

MessageEvent(cn, msg, t) ==
  [type |-> "message", codename |-> cn, encrypted |-> msg.encrypted,
   iv |-> msg.iv, timestamp |-> t]

FileEvent(cn, msg, t) ==
  [type |-> "file", codename |-> cn, data |-> msg.data, dataIv |-> msg.dataIv,
   meta |-> msg.meta, metaIv |-> msg.metaIv, timestamp |-> t]

TypingEvent(cn) == [type |-> "typing", codename |-> cn]

\* ----------------------------------------------------------------- sockets
\* ws.send(e) on every socket of targets: delivered to the sockets that are
\* OPEN, dropped without an exception on a socket that is closing or closed.
WsSend(inb, rs, targets, e) ==
  [c \in Conns |-> IF c \in targets /\ rs[c] = "OPEN" THEN Append(inb[c], e) ELSE inb[c]]

\* ws.close() on every socket of targets: starts the closing handshake
WsClose(rs, targets) ==
  [c \in Conns |-> IF c \in targets /\ rs[c] = "OPEN" THEN "CLOSING" ELSE rs[c]]

WsCloseCode(cc, rs, targets, code) ==
  [c \in Conns |-> IF c \in targets /\ rs[c] = "OPEN" THEN code ELSE cc[c]]

\* the peer's close frame has arrived (the server did not start the close):
\* no further frame follows on this socket
PeerClosed(ws) == readyState[ws] = "CLOSING" /\ closeCode[ws] = 0

\* ------------------------------------------------------- program functions
\* The functions below take and return the part of the state they can touch.
Cur ==
  [rooms |-> rooms, room |-> room, ttlTimers |-> ttlTimers, readyState |-> readyState,
   closeCode |-> closeCode, inbox |-> inbox, closure |-> closure,
   graceTimers |-> graceTimers, clock |-> clock, ttlDue |-> ttlDue]

\* What the garbage collector leaves: a socket whose 'close' event has been
\* emitted is gone with its handlers, and a room object is kept only while
\* the registry or the handlers of a remaining socket refer to it; a timeout
\* that was cleared or has fired leaves nothing behind.
Reachable(S) ==
  { S.rooms[n] : n \in RoomNames } \cup
  { S.closure[c].room : c \in { d \in Conns : S.readyState[d] # "CLOSED" } }

Collect(S) ==
  [S EXCEPT !.room = [id \in RoomIds |-> IF id \in Reachable(S) THEN S.room[id] ELSE NoRoomObject],
            !.closure = [c \in Conns |-> IF S.readyState[c] = "CLOSED" THEN NoClosure ELSE S.closure[c]],
            !.inbox = [c \in Conns |-> IF S.readyState[c] = "CLOSED" THEN <<>> ELSE S.inbox[c]],
            !.closeCode = [c \in Conns |-> IF S.readyState[c] = "CLOSED" THEN 0 ELSE S.closeCode[c]],
            !.ttlDue = [id \in RoomIds |-> IF S.ttlTimers[id] = Null THEN 0 ELSE S.ttlDue[id]]]

Commit(S) ==
  LET T == Collect(S)
  IN /\ rooms' = T.rooms
     /\ room' = T.room
     /\ ttlTimers' = T.ttlTimers
     /\ readyState' = T.readyState
     /\ closeCode' = T.closeCode
     /\ inbox' = T.inbox
     /\ closure' = T.closure
     /\ graceTimers' = T.graceTimers
     /\ clock' = T.clock
     /\ ttlDue' = T.ttlDue
     /\ UNCHANGED <<response, browser>>

\* getRoom(name, passwordHash, ttlMinutes); id is the identity of the object
\* a creation allocates, t the reading of Date.now()
getRoom(S, name, passwordHash, ttlMinutes, id, t) ==
  IF S.rooms[name] = NoRoom
  THEN LET ttl == IF ttlMinutes \in ALLOWED_TTL THEN ttlMinutes ELSE DEFAULT_TTL
           ttlMs == ttl * 60 * 1000
       IN [S EXCEPT !.rooms[name] = id,
                    !.room[id] = [name |-> name, clients |-> EmptyMap,
                                  createdAt |-> t, ttlMs |-> ttlMs, timer |-> id,
                                  usedCodenames |-> {},
                                  passwordHash |-> passwordHash],
                    !.ttlTimers[id] = name,
                    !.ttlDue[id] = S.clock + ttlMs]
  ELSE S

\* (variant: the registry entry is not deleted)
destroyRoom_keepsEntry(S, name) ==
  IF S.rooms[name] = NoRoom
  THEN S
  ELSE LET id == S.rooms[name]
           members == DOMAIN S.room[id].clients
       IN [S EXCEPT !.inbox = WsSend(S.inbox, S.readyState, members, DestroyedEvent),
                    !.closeCode = WsCloseCode(S.closeCode, S.readyState, members, CLOSE_NO_STATUS),
                    !.readyState = WsClose(S.readyState, members),
                    !.ttlTimers[S.room[id].timer] = Null]

\* (variant: the whole registry is emptied)
destroyRoom_clearsRegistry(S, name) ==
  IF S.rooms[name] = NoRoom
  THEN S
  ELSE LET id == S.rooms[name]
           members == DOMAIN S.room[id].clients
       IN [S EXCEPT !.inbox = WsSend(S.inbox, S.readyState, members, DestroyedEvent),
                    !.closeCode = WsCloseCode(S.closeCode, S.readyState, members, CLOSE_NO_STATUS),
                    !.readyState = WsClose(S.readyState, members),
                    !.ttlTimers[S.room[id].timer] = Null,
                    !.rooms = [n \in RoomNames |-> NoRoom]]

destroyRoom(S, name) ==
  IF S.rooms[name] = NoRoom
  THEN S
  ELSE LET id == S.rooms[name]
           members == DOMAIN S.room[id].clients
       IN [S EXCEPT !.inbox = WsSend(S.inbox, S.readyState, members, DestroyedEvent),
                    !.closeCode = WsCloseCode(S.closeCode, S.readyState, members, CLOSE_NO_STATUS),
                    !.readyState = WsClose(S.readyState, members),
                    !.ttlTimers[S.room[id].timer] = Null,
                    !.rooms[name] = NoRoom]

\* (variant: the TTL timeout is cancelled and no grace timeout is set)
manualDestroyRoom_noGraceTimer(S, name) ==
  IF S.rooms[name] = NoRoom
  THEN S
  ELSE LET id == S.rooms[name]
           members == DOMAIN S.room[id].clients
       IN [S EXCEPT !.inbox = WsSend(S.inbox, S.readyState, members, ManualDestroyedEvent),
                    !.ttlTimers[S.room[id].timer] = Null]

\* (variant: the sockets are closed at once instead of after the grace delay)
manualDestroyRoom_closesAtOnce(S, name) ==
  IF S.rooms[name] = NoRoom
  THEN S
  ELSE LET id == S.rooms[name]
           members == DOMAIN S.room[id].clients
       IN [S EXCEPT !.inbox = WsSend(S.inbox, S.readyState, members, ManualDestroyedEvent),
                    !.closeCode = WsCloseCode(S.closeCode, S.readyState, members, CLOSE_NO_STATUS),
                    !.readyState = WsClose(S.readyState, members),
                    !.ttlTimers[S.room[id].timer] = Null,
                    !.graceTimers = Append(S.graceTimers, [name |-> name, scheduledFor |-> id,
                                                            due |-> S.clock + GRACE_MS])]

\* (variant: the grace timeout is set before the room is looked up)
manualDestroyRoom_schedulesAnyway(S, name) ==
  IF S.rooms[name] = NoRoom
  THEN [S EXCEPT !.graceTimers = Append(S.graceTimers, [name |-> name, scheduledFor |-> NoRoom,
                                                        due |-> S.clock + GRACE_MS])]
  ELSE LET id == S.rooms[name]
           members == DOMAIN S.room[id].clients
       IN [S EXCEPT !.inbox = WsSend(S.inbox, S.readyState, members, ManualDestroyedEvent),
                    !.ttlTimers[S.room[id].timer] = Null,
                    !.graceTimers = Append(S.graceTimers, [name |-> name, scheduledFor |-> id,
                                                            due |-> S.clock + GRACE_MS])]

manualDestroyRoom(S, name) ==
  IF S.rooms[name] = NoRoom
  THEN S
  ELSE LET id == S.rooms[name]
           members == DOMAIN S.room[id].clients
       IN [S EXCEPT !.inbox = WsSend(S.inbox, S.readyState, members, ManualDestroyedEvent),
                    !.ttlTimers[S.room[id].timer] = Null,
                    !.graceTimers = Append(S.graceTimers, [name |-> name, scheduledFor |-> id,
                                                            due |-> S.clock + GRACE_MS])]

\* the callback manualDestroyRoom hands to setTimeout
graceTeardown(S, name) ==
  IF S.rooms[name] = NoRoom
  THEN S
  ELSE LET id == S.rooms[name]
           members == DOMAIN S.room[id].clients
       IN [S EXCEPT !.closeCode = WsCloseCode(S.closeCode, S.readyState, members, CLOSE_NO_STATUS),
                    !.readyState = WsClose(S.readyState, members),
                    !.rooms[name] = NoRoom]

\* (variant: the drawn codename is not recorded as used)
assignCodename_noAdd(r) ==
  LET available == CODENAMES \ r.usedCodenames
  IN IF available = {}
     THEN { [codename |-> "Agent-" \o tag, usedCodenames |-> r.usedCodenames] : tag \in UuidTags }
     ELSE { [codename |-> n, usedCodenames |-> r.usedCodenames] : n \in available }

\* assignCodename(room): the possible results, each with the updated set of
\* used codenames (Math.random and crypto.randomUUID are free choices)
assignCodename(r) ==
  LET available == CODENAMES \ r.usedCodenames
  IN IF available = {}
     THEN { [codename |-> "Agent-" \o tag, usedCodenames |-> r.usedCodenames] : tag \in UuidTags }
     ELSE { [codename |-> n, usedCodenames |-> r.usedCodenames \cup {n}] : n \in available }

\* (variant: the loop stops at the first member, in insertion order, that
\* cannot be sent to)
broadcast_abortsOnFailure(S, id, data, exclude) ==
  LET clients == DOMAIN S.room[id].clients
      targets == { client \in clients :
                     /\ client # exclude
                     /\ \A d \in clients :
                          (d <= client /\ d # exclude) => S.readyState[d] = "OPEN" }
  IN [S EXCEPT !.inbox = WsSend(S.inbox, S.readyState, targets, data)]

\* (variant: the exclude argument is ignored)
broadcast_noExclude(S, id, data, exclude) ==
  LET targets == { client \in DOMAIN S.room[id].clients : S.readyState[client] = "OPEN" }
  IN [S EXCEPT !.inbox = WsSend(S.inbox, S.readyState, targets, data)]

\* (variant: the event goes to every open socket of the server)
broadcast_everySocket(S, id, data, exclude) ==
  LET targets == { client \in Conns :
                     client # exclude /\ S.readyState[client] = "OPEN" }
  IN [S EXCEPT !.inbox = WsSend(S.inbox, S.readyState, targets, data)]

\* broadcast(room, data, exclude)
broadcast(S, id, data, exclude) ==
  LET targets == { client \in DOMAIN S.room[id].clients :
                     client # exclude /\ S.readyState[client] = "OPEN" }
  IN [S EXCEPT !.inbox = WsSend(S.inbox, S.readyState, targets, data)]

NoExclude == 0

\* ------------------------------------------------------------------ frames
\* JSON.parse(raw): the parsed frame, or BadJson when it throws.  An absent
\* field reads as Null.
BadJson == [type |-> "<SyntaxError>"]

Frame(type, encrypted, iv, data, dataIv, meta, metaIv, codename) ==
  [type |-> type, encrypted |-> encrypted, iv |-> iv, data |-> data,
   dataIv |-> dataIv, meta |-> meta, metaIv |-> metaIv, codename |-> codename]

MessageFrames ==
  { Frame("message", e, v, Null, Null, Null, Null, k) :
      e \in {Null, "X"}, v \in {"", "Y"}, k \in {Null, "Mallory"} }

FileFrames ==
  { Frame("file", Null, Null, d, dv, m, mv, Null) :
      d \in {Null, "D"}, dv \in {Null, "DV"}, m \in {"", "M"}, mv \in {Null, "MV"} }

OtherFrames ==
  { Frame(ty, Null, Null, Null, Null, Null, Null, Null) : ty \in {"typing", "destroy", "ping"} }

Frames == MessageFrames \cup FileFrames \cup OtherFrames \cup {BadJson}

\* ------------------------------------------------------ the browser client
\* chat.js, as far as it decides when a WebSocket is created: the script
\* variables ws, reconnectTimer, reconnectDelay and isTabHidden, the sockets
\* the page has created, the callbacks waiting in the timer queue and the
\* promises initChat and connect wait for.
Sockets == 1..MaxSockets

\* a slot holding no socket; last is the last event the server sent on the socket
NoSocket == [readyState |-> "NONE", last |-> "none"]

NewSocket == [readyState |-> "CONNECTING", last |-> "none"]

ClientInit ==
  [ started        |-> FALSE,    \* checkRoomAndConnect has run
    modal          |-> FALSE,    \* the password modal is shown
    deriving       |-> 0,        \* initChat calls waiting for deriveKey
    hashing        |-> 0,        \* connect calls waiting for hashPassword
    ws             |-> 0,        \* the socket ws refers to, 0 for null
    socket         |-> [i \in Sockets |-> NoSocket],
    reconnectTimer |-> FALSE,    \* reconnectTimer is not null
    timers         |-> 0,        \* reconnect callbacks in the timer queue
    reconnectDelay |-> 1000,
    isTabHidden    |-> FALSE,
    shatter        |-> "none",   \* "none", "started", "shattering", "redirected"
    placeholder    |-> "",       \* inputEl.placeholder
    fatal          |-> FALSE ]   \* a close with 4001 or 4003 was handled and no
                                 \* password has been submitted since

Min(a, b) == IF a <= b THEN a ELSE b

\* a closed socket that ws no longer refers to is garbage
Release(c) ==
  [c EXCEPT !.socket = [i \in Sockets |->
     IF c.socket[i].readyState = "CLOSED" /\ c.ws # i THEN NoSocket ELSE c.socket[i]]]

FreeSlots(c) == { i \in Sockets : c.socket[i].readyState = "NONE" }

\* connect(), up to the call of hashPassword
connect(c) ==
  IF c.ws # 0 /\ c.socket[c.ws].readyState \in {"OPEN", "CONNECTING"}
  THEN c
  ELSE [c EXCEPT !.hashing = @ + 1]

\* the continuation of hashPassword in connect(): ws = new WebSocket(wsUrl)
newWebSocket(c) ==
  LET d == Release([c EXCEPT !.ws = 0])
      i == CHOOSE k \in FreeSlots(d) : \A j \in FreeSlots(d) : k <= j
  IN [d EXCEPT !.hashing = @ - 1, !.socket[i] = NewSocket, !.ws = i]

onOpen(c) == [c EXCEPT !.reconnectDelay = 1000]

\* onMessage for the events that bear on the connection
onMessage(c, i, type) ==
  LET d == [c EXCEPT !.socket[i].last = type]
  IN CASE type = "auth_error" -> [d EXCEPT !.modal = TRUE]
       [] type = "manual"     -> [d EXCEPT !.shatter = IF @ = "none" THEN "started" ELSE @]
       [] type = "destroyed"  -> [d EXCEPT !.placeholder = "room expired"]

\* (variant: a reconnect is scheduled whether or not one is pending)
scheduleReconnect_noGuard(c) ==
  [c EXCEPT !.reconnectTimer = TRUE, !.timers = @ + 1]

scheduleReconnect(c) ==
  IF c.reconnectTimer
  THEN c
  ELSE [c EXCEPT !.reconnectTimer = TRUE, !.timers = @ + 1]

\* the callback scheduleReconnect hands to setTimeout
reconnectFires(c) ==
  connect([c EXCEPT !.reconnectTimer = FALSE, !.timers = @ - 1,
                    !.reconnectDelay = Min(@ * 2, 8000)])

onClose(c, i, code) ==
  LET d == [c EXCEPT !.socket[i].readyState = "CLOSED"]
  IN Release(IF code \in {CLOSE_AUTH_FAILED, CLOSE_INVALID_ROOM}
             THEN [d EXCEPT !.fatal = TRUE]
             ELSE IF d.shatter # "shattering"
                  THEN scheduleReconnect(d)
                  ELSE d)

\* the close codes a browser can report for a socket, given what the server
\* last sent on it: 1006 for a lost transport, 1005 for a close without a code
CloseCodes(sock) ==
  {1006} \cup
  CASE sock.readyState # "OPEN"  -> {}
    [] sock.last = "auth_error"  -> {CLOSE_AUTH_FAILED}
    [] sock.last = "none"        -> {CLOSE_INVALID_ROOM}
    [] OTHER                     -> {1005}

\* ---------------------------------------------------------------- handlers
Init ==
  /\ rooms = [n \in RoomNames |-> NoRoom]
  /\ room = [id \in RoomIds |-> NoRoomObject]
  /\ ttlTimers = [id \in RoomIds |-> Null]
  /\ readyState = [c \in Conns |-> "CONNECTING"]
  /\ closeCode = [c \in Conns |-> 0]
  /\ inbox = [c \in Conns |-> <<>>]
  /\ closure = [c \in Conns |-> NoClosure]
  /\ nextConn = 1
  /\ graceTimers = <<>>
  /\ nframes = 0
  /\ clock = 1
  /\ ttlDue = [id \in RoomIds |-> 0]
  /\ response = NoResponse
  /\ browser = ClientInit

\* !roomName || roomName.length > 64
InvalidRoomName(roomName) == ~Truthy(roomName) \/ Len(roomName) > MAX_NAME_LEN

\* (variant: the gate compares only a proof that was presented)
AuthFails_unlessAbsent(r, pwdHash) ==
  /\ Truthy(r.passwordHash)
  /\ Truthy(pwdHash)
  /\ pwdHash # r.passwordHash

\* the password gate of an existing room r
AuthFails(r, pwdHash) ==
  /\ Truthy(r.passwordHash)
  /\ (~Truthy(pwdHash) \/ pwdHash # r.passwordHash)

\* (variant: the invalid name is answered like a failed password check)
rejectInvalidRoom_asAuthFailure(S, ws) ==
  [S EXCEPT !.inbox = WsSend(S.inbox, S.readyState, {ws}, AuthErrorEvent),
            !.closeCode = WsCloseCode(S.closeCode, S.readyState, {ws}, CLOSE_AUTH_FAILED),
            !.readyState = WsClose(S.readyState, {ws})]

\* ws.close(4001, 'invalid room')
rejectInvalidRoom(S, ws) ==
  [S EXCEPT !.closeCode = WsCloseCode(S.closeCode, S.readyState, {ws}, CLOSE_INVALID_ROOM),
            !.readyState = WsClose(S.readyState, {ws})]

\* (variant: the error is sent but the socket is left open)
rejectAuth_noClose(S, ws) ==
  [S EXCEPT !.inbox = WsSend(S.inbox, S.readyState, {ws}, AuthErrorEvent)]

\* ws.send(auth_error); ws.close(4003, 'auth failed')
rejectAuth(S, ws) ==
  [S EXCEPT !.inbox = WsSend(S.inbox, S.readyState, {ws}, AuthErrorEvent),
            !.closeCode = WsCloseCode(S.closeCode, S.readyState, {ws}, CLOSE_AUTH_FAILED),
            !.readyState = WsClose(S.readyState, {ws})]

\* (variant: every admission materializes a room, also under a registered name)
admit_alwaysCreates(S, ws, roomName, hasPassword, pwdHash, ttl, t) ==
  LET S1 == getRoom([S EXCEPT !.rooms[roomName] = NoRoom], roomName,
                    IF hasPassword THEN pwdHash ELSE Null, ttl, ws, t)
      id == S1.rooms[roomName]
  IN { LET codename == a.codename
           S2 == [S1 EXCEPT !.room[id].usedCodenames = a.usedCodenames,
                            !.room[id].clients = MapSet(@, ws, codename)]
           n == Size(S2.room[id].clients)
           S3 == [S2 EXCEPT !.inbox = WsSend(S2.inbox, S2.readyState, {ws},
                                             InitEvent(codename, n, S2.room[id]))]
           S4 == broadcast(S3, id, JoinEvent(codename, n), ws)
       IN [S4 EXCEPT !.closure[ws] =
             [room |-> id, roomName |-> roomName, codename |-> codename]]
       : a \in assignCodename(S1.room[id]) }

\* (variant: a joiner that declares a password overwrites the room's)
admit_joinerSetsPassword(S, ws, roomName, hasPassword, pwdHash, ttl, t) ==
  LET S0 == IF S.rooms[roomName] # NoRoom
            THEN S
            ELSE getRoom(S, roomName, IF hasPassword THEN pwdHash ELSE Null, ttl, ws, t)
      id == S0.rooms[roomName]
      S1 == IF hasPassword THEN [S0 EXCEPT !.room[id].passwordHash = pwdHash] ELSE S0
  IN { LET codename == a.codename
           S2 == [S1 EXCEPT !.room[id].usedCodenames = a.usedCodenames,
                            !.room[id].clients = MapSet(@, ws, codename)]
           n == Size(S2.room[id].clients)
           S3 == [S2 EXCEPT !.inbox = WsSend(S2.inbox, S2.readyState, {ws},
                                             InitEvent(codename, n, S2.room[id]))]
           S4 == broadcast(S3, id, JoinEvent(codename, n), ws)
       IN [S4 EXCEPT !.closure[ws] =
             [room |-> id, roomName |-> roomName, codename |-> codename]]
       : a \in assignCodename(S1.room[id]) }

\* (variant: the join event goes to every member, the joiner included, and
\* the init event follows it)
admit_joinBeforeInit(S, ws, roomName, hasPassword, pwdHash, ttl, t) ==
  LET S1 == IF S.rooms[roomName] # NoRoom
            THEN S
            ELSE getRoom(S, roomName, IF hasPassword THEN pwdHash ELSE Null, ttl, ws, t)
      id == S1.rooms[roomName]
  IN { LET codename == a.codename
           S2 == [S1 EXCEPT !.room[id].usedCodenames = a.usedCodenames,
                            !.room[id].clients = MapSet(@, ws, codename)]
           n == Size(S2.room[id].clients)
           S3 == broadcast(S2, id, JoinEvent(codename, n), NoExclude)
           S4 == [S3 EXCEPT !.inbox = WsSend(S3.inbox, S3.readyState, {ws},
                                             InitEvent(codename, n, S3.room[id]))]
       IN [S4 EXCEPT !.closure[ws] =
             [room |-> id, roomName |-> roomName, codename |-> codename]]
       : a \in assignCodename(S1.room[id]) }

\* (variant: the creator's proof becomes the password whatever the hint)
admit_ignoresHint(S, ws, roomName, hasPassword, pwdHash, ttl, t) ==
  LET S1 == IF S.rooms[roomName] # NoRoom
            THEN S
            ELSE getRoom(S, roomName, pwdHash, ttl, ws, t)
      id == S1.rooms[roomName]
  IN { LET codename == a.codename
           S2 == [S1 EXCEPT !.room[id].usedCodenames = a.usedCodenames,
                            !.room[id].clients = MapSet(@, ws, codename)]
           n == Size(S2.room[id].clients)
           S3 == [S2 EXCEPT !.inbox = WsSend(S2.inbox, S2.readyState, {ws},
                                             InitEvent(codename, n, S2.room[id]))]
           S4 == broadcast(S3, id, JoinEvent(codename, n), ws)
       IN [S4 EXCEPT !.closure[ws] =
             [room |-> id, roomName |-> roomName, codename |-> codename]]
       : a \in assignCodename(S1.room[id]) }

\* the admission path: the states it can end in, one per codename drawn
admit(S, ws, roomName, hasPassword, pwdHash, ttl, t) ==
  LET S1 == IF S.rooms[roomName] # NoRoom
            THEN S
            ELSE getRoom(S, roomName, IF hasPassword THEN pwdHash ELSE Null, ttl, ws, t)
      id == S1.rooms[roomName]
  IN { LET codename == a.codename
           S2 == [S1 EXCEPT !.room[id].usedCodenames = a.usedCodenames,
                            !.room[id].clients = MapSet(@, ws, codename)]
           n == Size(S2.room[id].clients)
           S3 == [S2 EXCEPT !.inbox = WsSend(S2.inbox, S2.readyState, {ws},
                                             InitEvent(codename, n, S2.room[id]))]
           S4 == broadcast(S3, id, JoinEvent(codename, n), ws)
       IN [S4 EXCEPT !.closure[ws] =
             [room |-> id, roomName |-> roomName, codename |-> codename]]
       : a \in assignCodename(S1.room[id]) }

\* wss.on('connection'): the next socket arrives with these query parameters
Connection(roomParam, hasPasswordParam, pwdParam, ttlParam, t) ==
  /\ nextConn <= MaxConns
  /\ LET ws == nextConn
         roomName == roomParam
         hasPassword == (hasPasswordParam = "1")
         pwdHash == OrDefault(pwdParam, "")
         ttl == ParseInt(OrDefault(ttlParam, "10"))
         S0 == [Cur EXCEPT !.readyState[ws] = "OPEN"]
     IN IF InvalidRoomName(roomName)
        THEN Commit(rejectInvalidRoom(S0, ws))
        ELSE IF rooms[roomName] # NoRoom /\ AuthFails(room[rooms[roomName]], pwdHash)
        THEN Commit(rejectAuth(S0, ws))
        ELSE \E S1 \in admit(S0, ws, roomName, hasPassword, pwdHash, ttl, t) : Commit(S1)
  /\ nextConn' = nextConn + 1
  /\ UNCHANGED nframes

\* (variant: message and file frames are relayed without the field checks)
HandleFrame_noFieldCheck(S, ws, msg, t) ==
  LET id == S.closure[ws].room
      roomName == S.closure[ws].roomName
      codename == S.closure[ws].codename
  IN CASE msg = BadJson -> S
       [] msg.type = "message" -> broadcast(S, id, MessageEvent(codename, msg, t), ws)
       [] msg.type = "file" -> broadcast(S, id, FileEvent(codename, msg, t), ws)
       [] msg.type = "typing" -> broadcast(S, id, TypingEvent(codename), ws)
       [] msg.type = "destroy" -> manualDestroyRoom(S, roomName)
       [] OTHER -> S

\* the effect of ws.on('message') on the shared state
HandleFrame(S, ws, msg, t) ==
  LET id == S.closure[ws].room
      roomName == S.closure[ws].roomName
      codename == S.closure[ws].codename
  IN CASE msg = BadJson -> S
       [] msg.type = "message" ->
            IF ~Truthy(msg.encrypted) \/ ~Truthy(msg.iv) THEN S
            ELSE broadcast(S, id, MessageEvent(codename, msg, t), ws)
       [] msg.type = "file" ->
            IF ~Truthy(msg.data) \/ ~Truthy(msg.dataIv) \/ ~Truthy(msg.meta) \/ ~Truthy(msg.metaIv)
            THEN S
            ELSE broadcast(S, id, FileEvent(codename, msg, t), ws)
       [] msg.type = "typing" -> broadcast(S, id, TypingEvent(codename), ws)
       [] msg.type = "destroy" -> manualDestroyRoom(S, roomName)
       [] OTHER -> S

\* ws.on('message'): a frame arrives on a socket that can still receive
Receive(ws, msg, t) ==
  /\ closure[ws].room # NoRoom
  /\ readyState[ws] \in {"OPEN", "CLOSING"}
  /\ ~PeerClosed(ws)
  /\ Commit(HandleFrame(Cur, ws, msg, t))
  /\ nframes' = nframes + 1
  /\ UNCHANGED nextConn

OnMessage(ws, msg, t) ==
  /\ nframes < MaxFrames
  /\ Receive(ws, msg, t)

\* the peer starts the closing handshake: the socket leaves the OPEN state
\* before its 'close' event is emitted
PeerClose(ws) ==
  /\ closure[ws].room # NoRoom
  /\ readyState[ws] = "OPEN"
  /\ readyState' = [readyState EXCEPT ![ws] = "CLOSING"]
  /\ UNCHANGED <<rooms, room, ttlTimers, closeCode, inbox, closure, nextConn, graceTimers,
                 nframes, clock, ttlDue, response, browser>>

\* (variant: the leave event is broadcast before the socket is removed)
OnClose_broadcastFirst(ws) ==
  /\ closure[ws].room # NoRoom
  /\ readyState[ws] \in {"OPEN", "CLOSING"}
  /\ LET id == closure[ws].room
         roomName == closure[ws].roomName
         codename == closure[ws].codename
         S0 == [Cur EXCEPT !.readyState[ws] = "CLOSED"]
         S1 == broadcast(S0, id, LeaveEvent(codename, Size(S0.room[id].clients)), NoExclude)
         S2 == [S1 EXCEPT !.room[id].clients = MapDelete(@, ws),
                          !.room[id].usedCodenames = @ \ {codename}]
         S3 == IF Size(S2.room[id].clients) = 0 THEN destroyRoom(S2, roomName) ELSE S2
     IN Commit(S3)
  /\ UNCHANGED <<nextConn, nframes>>

\* (variant: every used codename of the room is released)
OnClose_releasesAll(ws) ==
  /\ closure[ws].room # NoRoom
  /\ readyState[ws] \in {"OPEN", "CLOSING"}
  /\ LET id == closure[ws].room
         roomName == closure[ws].roomName
         codename == closure[ws].codename
         S0 == [Cur EXCEPT !.readyState[ws] = "CLOSED"]
         S1 == [S0 EXCEPT !.room[id].clients = MapDelete(@, ws),
                          !.room[id].usedCodenames = {}]
         S2 == broadcast(S1, id, LeaveEvent(codename, Size(S1.room[id].clients)), NoExclude)
         S3 == IF Size(S2.room[id].clients) = 0 THEN destroyRoom(S2, roomName) ELSE S2
     IN Commit(S3)
  /\ UNCHANGED <<nextConn, nframes>>

\* ws.on('close')
OnClose(ws) ==
  /\ closure[ws].room # NoRoom
  /\ readyState[ws] \in {"OPEN", "CLOSING"}
  /\ LET id == closure[ws].room
         roomName == closure[ws].roomName
         codename == closure[ws].codename
         S0 == [Cur EXCEPT !.readyState[ws] = "CLOSED"]
         S1 == [S0 EXCEPT !.room[id].clients = MapDelete(@, ws),
                          !.room[id].usedCodenames = @ \ {codename}]
         S2 == broadcast(S1, id, LeaveEvent(codename, Size(S1.room[id].clients)), NoExclude)
         S3 == IF Size(S2.room[id].clients) = 0 THEN destroyRoom(S2, roomName) ELSE S2
     IN Commit(S3)
  /\ UNCHANGED <<nextConn, nframes>>

\* the room's TTL timeout fires: () => destroyRoom(name)
TtlExpire(id) ==
  /\ ttlTimers[id] # Null
  /\ LET S0 == [Cur EXCEPT !.ttlTimers[id] = Null]
     IN Commit(destroyRoom(S0, ttlTimers[id]))
  /\ UNCHANGED <<nextConn, nframes>>

\* the oldest grace timeout fires (all grace timeouts have the same delay)
GraceExpire ==
  /\ graceTimers # <<>>
  /\ LET S0 == [Cur EXCEPT !.graceTimers = Tail(@)]
     IN Commit(graceTeardown(S0, Head(graceTimers).name))
  /\ UNCHANGED <<nextConn, nframes>>

\* a connection request arrives, with any query string
Arrive ==
  \E roomParam \in NameParams, hasPasswordParam \in HasPasswordParams,
     pwdParam \in PwdParams, ttlParam \in TtlParams(nextConn), t \in Times :
    Connection(roomParam, hasPasswordParam, pwdParam, ttlParam, t)

Next ==
  \/ Arrive
  \/ \E ws \in Conns, msg \in Frames, t \in Times : OnMessage(ws, msg, t)
  \/ \E ws \in Conns : PeerClose(ws)
  \/ \E ws \in Conns : OnClose(ws)
  \/ \E id \in RoomIds : TtlExpire(id)
  \/ GraceExpire

Spec == Init /\ [][Next]_vars

\* a callback handed to setTimeout runs once its delay has passed: a pending
\* TTL timeout and the oldest pending grace timeout are not postponed forever
TimersFire ==
  /\ \A id \in RoomIds : WF_vars(TtlExpire(id))
  /\ WF_vars(GraceExpire)

\* the same handlers driven by the requests that decide how long a room
\* lives: accepted and refused joins, destroy and typing frames, disconnects
\* and the two kinds of timeout
LiveArrive ==
  \E roomParam \in JoinNames \cup {Null}, hasPasswordParam \in HasPasswordParams,
     pwdParam \in {Null, "h1"}, ttlParam \in TtlParams(nextConn), t \in Times :
    Connection(roomParam, hasPasswordParam, pwdParam, ttlParam, t)

LiveFrames ==
  { Frame(ty, Null, Null, Null, Null, Null, Null, Null) : ty \in {"typing", "destroy"} }

LiveNext ==
  \/ LiveArrive
  \/ \E ws \in Conns, msg \in LiveFrames, t \in Times : OnMessage(ws, msg, t)
  \/ \E ws \in Conns : OnClose(ws)
  \/ \E id \in RoomIds : TtlExpire(id)
  \/ GraceExpire

FairSpec == Init /\ [][LiveNext]_vars /\ TimersFire

\* the instants at which a pending timeout becomes due
PendingDues ==
  { ttlDue[id] : id \in { i \in RoomIds : ttlTimers[i] # Null } } \cup
  { graceTimers[i].due : i \in 1..Len(graceTimers) }

\* time passes, up to the next instant at which a pending timeout becomes due
Tick ==
  /\ \E d \in PendingDues :
       /\ d > clock
       /\ \A e \in PendingDues : e > clock => d <= e
       /\ clock' = d
  /\ UNCHANGED <<rooms, room, ttlTimers, readyState, closeCode, inbox, closure, nextConn,
                 graceTimers, nframes, ttlDue, response, browser>>

\* the handlers with the clock: Date.now() reads it, and a timeout fires
\* no earlier than the delay it was set with
TimedArrive ==
  \E roomParam \in JoinNames \cup {Null}, hasPasswordParam \in HasPasswordParams,
     pwdParam \in {Null, "h1"}, ttlParam \in TtlParams(nextConn) :
    Connection(roomParam, hasPasswordParam, pwdParam, ttlParam, clock)

TimedTtlExpire(id) == ttlDue[id] <= clock /\ TtlExpire(id)

TimedGraceExpire ==
  /\ graceTimers # <<>>
  /\ Head(graceTimers).due <= clock
  /\ GraceExpire

TimedNext ==
  \/ TimedArrive
  \/ \E ws \in Conns, msg \in LiveFrames : OnMessage(ws, msg, clock)
  \/ \E ws \in Conns : OnClose(ws)
  \/ \E id \in RoomIds : TimedTtlExpire(id)
  \/ TimedGraceExpire
  \/ Tick

TimedSpec == Init /\ [][TimedNext]_vars

\* the handlers driven by requests for two room names and by up to MaxBurst
\* frames, without passwords
RoomsArrive ==
  \E roomParam \in RoomNames \cup {Null}, ttlParam \in TtlParams(nextConn), t \in Times :
    Connection(roomParam, Null, Null, ttlParam, t)

RoomsFrames ==
  LiveFrames \cup
  { Frame("message", "X", "Y", Null, Null, Null, Null, Null),
    Frame("file", Null, Null, "D", "DV", "M", "MV", Null) }

RoomsReceive ==
  \E ws \in Conns, msg \in RoomsFrames, t \in Times :
    nframes < MaxBurst /\ Receive(ws, msg, t)

RoomsNext ==
  \/ RoomsArrive
  \/ RoomsReceive
  \/ \E ws \in Conns : OnClose(ws)
  \/ \E id \in RoomIds : TtlExpire(id)
  \/ GraceExpire

RoomsSpec == Init /\ [][RoomsNext]_vars

\* GET /api/room-info?room=...: what the handler answers
RoomInfoResponse(roomName) ==
  IF ~Truthy(roomName)
  THEN [status |-> 400, error |-> "missing room name"]
  ELSE IF roomName \notin RoomNames \/ rooms[roomName] = NoRoom
  THEN [status |-> 200, exists |-> FALSE, hasPassword |-> FALSE]
  ELSE [status |-> 200, exists |-> TRUE,
        hasPassword |-> Truthy(room[rooms[roomName]].passwordHash),
        participants |-> Size(room[rooms[roomName]].clients)]

\* (variant: the lookup goes through getRoom)
RoomInfo_materializes(roomParam) ==
  /\ roomParam \in RoomNames
  /\ nextConn <= MaxConns
  /\ Commit(getRoom(Cur, roomParam, Null, DEFAULT_TTL, nextConn, clock))
  /\ UNCHANGED <<nextConn, nframes>>

RoomInfo(roomParam) ==
  /\ response' = RoomInfoResponse(roomParam)
  /\ UNCHANGED <<rooms, room, ttlTimers, readyState, closeCode, inbox, closure, nextConn,
                 graceTimers, nframes, clock, ttlDue, browser>>

\* the handlers driven by creators and joiners with every kind of ttl
\* parameter, and by room-info lookups
AllTtlParams == {Null, "10", "15", "30", "7", "abc", "15.5", "30min"}

SettingsArrive ==
  \E roomParam \in JoinNames, hasPasswordParam \in HasPasswordParams,
     pwdParam \in {Null, "h1"}, ttlParam \in AllTtlParams, t \in Times :
    Connection(roomParam, hasPasswordParam, pwdParam, ttlParam, t)

SettingsNext ==
  \/ SettingsArrive
  \/ \E roomParam \in NameParams : RoomInfo(roomParam)
  \/ \E ws \in Conns : OnClose(ws)
  \/ \E id \in RoomIds : TtlExpire(id)

SettingsSpec == Init /\ [][SettingsNext]_vars

\* ------------------------------------------------- the client's handlers
ServerIdle ==
  UNCHANGED <<rooms, room, ttlTimers, readyState, closeCode, inbox, closure, nextConn,
              graceTimers, nframes, clock, ttlDue, response>>

Loaded == browser.started /\ browser.shatter # "redirected"

\* checkRoomAndConnect: the modal for a protected room without a stored
\* password, initChat otherwise
Load ==
  /\ ~browser.started
  /\ \E askPassword \in BOOLEAN :
       browser' = IF askPassword
                 THEN [browser EXCEPT !.started = TRUE, !.modal = TRUE]
                 ELSE [browser EXCEPT !.started = TRUE, !.deriving = @ + 1]
  /\ ServerIdle

\* the click handler of modalSubmit with a non-empty password
ModalSubmit ==
  /\ Loaded
  /\ browser.modal
  /\ browser.deriving = 0
  /\ browser' = [browser EXCEPT !.modal = FALSE, !.fatal = FALSE, !.deriving = @ + 1]
  /\ ServerIdle

\* initChat after deriveKey has resolved
initChat ==
  /\ Loaded
  /\ browser.deriving > 0
  /\ LET c == connect([browser EXCEPT !.deriving = @ - 1])
     IN c.hashing <= MaxPending /\ browser' = c
  /\ ServerIdle

HashResolved ==
  /\ Loaded
  /\ browser.hashing > 0
  /\ FreeSlots(Release([browser EXCEPT !.ws = 0])) # {}
  /\ browser' = newWebSocket(browser)
  /\ ServerIdle

SocketOpen(i) ==
  /\ Loaded
  /\ browser.socket[i].readyState = "CONNECTING"
  /\ browser' = onOpen([browser EXCEPT !.socket[i].readyState = "OPEN"])
  /\ ServerIdle

SocketMessage(i, type) ==
  /\ Loaded
  /\ browser.socket[i].readyState = "OPEN"
  /\ browser.socket[i].last = "none"
  /\ browser' = onMessage(browser, i, type)
  /\ ServerIdle

SocketClose(i, code) ==
  /\ Loaded
  /\ browser.socket[i].readyState \in {"CONNECTING", "OPEN"}
  /\ code \in CloseCodes(browser.socket[i])
  /\ browser' = onClose(browser, i, code)
  /\ ServerIdle

TimerFires ==
  /\ Loaded
  /\ browser.timers > 0
  /\ LET c == reconnectFires(browser)
     IN c.hashing <= MaxPending /\ browser' = c
  /\ ServerIdle

\* the visibilitychange handler
VisibilityChange ==
  /\ Loaded
  /\ LET c == [browser EXCEPT !.isTabHidden = ~@]
         d == IF ~c.isTabHidden /\ (c.ws = 0 \/ c.socket[c.ws].readyState = "CLOSED")
              THEN connect([c EXCEPT !.reconnectDelay = 1000])
              ELSE c
     IN d.hashing <= MaxPending /\ browser' = d
  /\ ServerIdle

\* the timeouts of shatterAndRedirect: the class after 150 ms, the redirect
\* after 2000 ms
ShatterTimer ==
  /\ Loaded
  /\ browser.shatter \in {"started", "shattering"}
  /\ browser' = [browser EXCEPT !.shatter = IF @ = "started" THEN "shattering" ELSE "redirected"]
  /\ ServerIdle

ClientNext ==
  \/ Load
  \/ ModalSubmit
  \/ initChat
  \/ HashResolved
  \/ \E i \in Sockets : SocketOpen(i)
  \/ \E i \in Sockets, type \in {"auth_error", "manual", "destroyed"} : SocketMessage(i, type)
  \/ \E i \in Sockets, code \in {1005, 1006, CLOSE_INVALID_ROOM, CLOSE_AUTH_FAILED} :
       SocketClose(i, code)
  \/ TimerFires
  \/ VisibilityChange
  \/ ShatterTimer

ClientSpec == Init /\ [][ClientNext]_vars

TypeOK ==
  /\ \A n \in RoomNames : rooms[n] \in RoomIds \cup {NoRoom}
  /\ nextConn \in 1..(MaxConns + 1)
  /\ nframes \in 0..MaxBurst
  /\ clock \in Nat
  /\ \A id \in RoomIds : ttlDue[id] \in Nat
  /\ \A c \in Conns : readyState[c] \in {"CONNECTING", "OPEN", "CLOSING", "CLOSED"}
  /\ browser.ws \in Sockets \cup {0}
  /\ browser.hashing \in 0..MaxPending
  /\ browser.deriving \in 0..1
  /\ \A i \in Sockets : browser.socket[i].readyState \in {"NONE", "CONNECTING", "OPEN", "CLOSED"}


\* ================================================================== claims
Range(q) == { q[i] : i \in 1..Len(q) }

RegisteredRooms == { rooms[n] : n \in RoomNames } \ {NoRoom}

Members(id) == DOMAIN room[id].clients

\* C1: in every room the number of used codenames equals the number of
\* members, after every join and every leave.
C1_UsedCodenamesMatchMembers ==
  \A id \in RoomIds : Cardinality(room[id].usedCodenames) = Size(room[id].clients)

\* C2: no two simultaneous members of a room hold the same codename.
C2_CodenamesDistinct ==
  \A id \in RoomIds : \A c, d \in Members(id) :
    c # d => room[id].clients[c] # room[id].clients[d]

\* C3: a join to a password-protected room is admitted (the socket becomes a
\* member) exactly when the presented proof is non-empty and equal to the
\* stored hash, whatever hasPassword hint and ttl it carries; and a socket
\* rejected by the gate is never a member of any room.
C3_PasswordGate ==
  /\ [][ nextConn' = nextConn + 1 =>
           \A roomParam \in RoomNames, hasPasswordParam \in HasPasswordParams,
              pwdParam \in PwdParams, ttlParam \in TtlParams(nextConn), t \in Times :
             ( /\ rooms[roomParam] # NoRoom
               /\ Truthy(room[rooms[roomParam]].passwordHash)
               /\ Connection(roomParam, hasPasswordParam, pwdParam, ttlParam, t) )
             => ( nextConn \in DOMAIN room'[rooms[roomParam]].clients
                  <=> (Truthy(pwdParam) /\ pwdParam = room[rooms[roomParam]].passwordHash) )
       ]_vars
  /\ [](\A c \in Conns : closeCode[c] = CLOSE_AUTH_FAILED =>
           \A id \in RoomIds : c \notin Members(id))

C3_Witness ==
  \E id \in RegisteredRooms :
    /\ Truthy(room[id].passwordHash)
    /\ \E c \in Members(id) : c # id
    /\ \E d \in Conns : closeCode[d] = CLOSE_AUTH_FAILED

\* C4: a join rejected by the password gate leaves the registry, every room
\* object and every timer unchanged and delivers nothing to any other socket;
\* the rejected socket gets exactly one auth_error, is closed with 4003, gets
\* no handlers, and never receives anything else (no init).
C4_RejectedJoin ==
  /\ [][ nextConn' = nextConn + 1 =>
           \A roomParam \in RoomNames, hasPasswordParam \in HasPasswordParams,
              pwdParam \in PwdParams, ttlParam \in TtlParams(nextConn), t \in Times :
             ( /\ rooms[roomParam] # NoRoom
               /\ Truthy(room[rooms[roomParam]].passwordHash)
               /\ OrDefault(pwdParam, "") # room[rooms[roomParam]].passwordHash
               /\ Connection(roomParam, hasPasswordParam, pwdParam, ttlParam, t) )
             => ( /\ rooms' = rooms
                  /\ room' = room
                  /\ ttlTimers' = ttlTimers
                  /\ graceTimers' = graceTimers
                  /\ \A c \in Conns \ {nextConn} :
                       inbox'[c] = inbox[c] /\ readyState'[c] = readyState[c]
                  /\ inbox'[nextConn] = <<AuthErrorEvent>>
                  /\ readyState'[nextConn] = "CLOSING"
                  /\ closeCode'[nextConn] = CLOSE_AUTH_FAILED
                  /\ closure'[nextConn] = NoClosure )
       ]_vars
  /\ [](\A c \in Conns : closeCode[c] = CLOSE_AUTH_FAILED =>
           /\ inbox[c] = <<AuthErrorEvent>>
           /\ readyState[c] = "CLOSING"
           /\ closure[c] = NoClosure)

C4_Witness ==
  \E c \in Conns :
    /\ closeCode[c] = CLOSE_AUTH_FAILED
    /\ inbox[c] = <<AuthErrorEvent>>
    /\ nextConn > c + 1
    /\ \E id \in RegisteredRooms : Truthy(room[id].passwordHash) /\ Members(id) # {}

\* C5: when a socket M is admitted, M receives exactly the init event of that
\* admission, every member that was in the room before and is open receives
\* the join event announcing M, and no other socket receives anything.
C5_JoinAndInitDelivery ==
  [][ (nextConn' = nextConn + 1 /\ closure'[nextConn].room # NoRoom) =>
        LET M == nextConn
            id == closure'[M].room
            codename == closure'[M].codename
            prior == Members(id)
            n == Cardinality(prior) + 1
        IN /\ Len(inbox'[M]) = 1
           /\ inbox'[M][1].type = "init"
           /\ inbox'[M][1].codename = codename
           /\ \A c \in Conns \ {M} :
                inbox'[c] = IF c \in prior /\ readyState[c] = "OPEN"
                            THEN Append(inbox[c], JoinEvent(codename, n))
                            ELSE inbox[c]
    ]_vars

C5_Witness ==
  \E c, M \in Conns :
    /\ c # M
    /\ closure[M].room # NoRoom
    /\ closure[c].room = closure[M].room
    /\ inbox[M] # <<>> /\ Head(inbox[M]).type = "init"
    /\ JoinEvent(closure[M].codename, 2) \in Range(inbox[c])
    /\ \A e \in Range(inbox[M]) : e.type # "join"

\* C6: no registered room has zero members; the close handler of the last
\* member of a registered room removes it from the registry and cancels its
\* TTL timer in the same step.
C6_NoEmptyRegisteredRoom ==
  /\ [](\A id \in RegisteredRooms : Members(id) # {})
  /\ [][ \A ws \in Conns :
           ( /\ closure[ws].room # NoRoom
             /\ readyState[ws] # "CLOSED" /\ readyState'[ws] = "CLOSED"
             /\ rooms[closure[ws].roomName] = closure[ws].room
             /\ Members(closure[ws].room) = {ws} )
           => ( /\ rooms'[closure[ws].roomName] = NoRoom
                /\ ttlTimers'[room[closure[ws].room].timer] = Null )
       ]_vars

C6_Witness ==
  \E ws, d \in Conns :
    /\ readyState[ws] = "CLOSED"
    /\ d > ws
    /\ closure[d].room = d
    /\ rooms[closure[d].roomName] = d
    /\ \A c \in Conns : c < d => readyState[c] \in {"CLOSED", "CLOSING"}

\* C7: when a manual-destroy grace timer fires and finds a room registered
\* under its name, that room is the instance the timer was scheduled for: the
\* teardown never closes the sockets of, or removes, a later instance.
C7_GraceActsOnOwnInstance ==
  [][ ( /\ graceTimers # <<>>
        /\ graceTimers' = Tail(graceTimers)
        /\ rooms[Head(graceTimers).name] # NoRoom )
      => rooms[Head(graceTimers).name] = Head(graceTimers).scheduledFor
    ]_vars

\* C8: a pending TTL timer always belongs to the room instance registered
\* under its name: removing an instance by any path cancels its TTL timer.
C8_TtlTimerCancelledOnRemoval ==
  \A id \in RoomIds : ttlTimers[id] # Null => rooms[ttlTimers[id]] = id

\* C9: the step that handles a destroy frame delivers destroyed(manual) to
\* every open member of the room, none of whose members the server has closed
\* before, and closes nothing and removes nothing itself; the step in which
\* the grace timer fires leaves the name unregistered and no socket of the
\* destroyed instance open.
C9_ManualDestroy ==
  [][ /\ Len(graceTimers') = Len(graceTimers) + 1 =>
           LET g == graceTimers'[Len(graceTimers')]
               id == rooms[g.name]
           IN /\ id # NoRoom /\ id = g.scheduledFor
              /\ \A c \in Members(id) :
                   /\ closeCode[c] = 0
                   /\ readyState[c] = "OPEN" =>
                        inbox'[c] = Append(inbox[c], ManualDestroyedEvent)
              /\ readyState' = readyState
              /\ rooms' = rooms
      /\ Len(graceTimers') < Len(graceTimers) =>
           LET g == Head(graceTimers)
           IN /\ rooms'[g.name] = NoRoom
              /\ \A c \in Conns :
                   closure[c].room = g.scheduledFor => readyState'[c] # "OPEN"
    ]_vars

C9_Witness ==
  \E c \in Conns :
    /\ closure[c].room # NoRoom
    /\ readyState[c] = "CLOSING"
    /\ closeCode[c] = CLOSE_NO_STATUS
    /\ inbox[c][Len(inbox[c])] = ManualDestroyedEvent
    /\ rooms[closure[c].roomName] = NoRoom
    /\ graceTimers = <<>>

ValidFrame(msg) ==
  \/ msg.type = "message" /\ Truthy(msg.encrypted) /\ Truthy(msg.iv)
  \/ /\ msg.type = "file"
     /\ Truthy(msg.data) /\ Truthy(msg.dataIv) /\ Truthy(msg.meta) /\ Truthy(msg.metaIv)

\* C10: a valid message (file) frame from member A is delivered to every other
\* open member of A's room as a message (file) event with the same payload
\* fields, the codename the room's member map holds for A and the server's
\* timestamp; A and every other socket receive nothing.
C10_Relay ==
  [][ nframes' = nframes + 1 =>
        \A A \in Conns, msg \in MessageFrames \cup FileFrames, t \in Times :
          (ValidFrame(msg) /\ OnMessage(A, msg, t)) =>
            LET id == closure[A].room
                cn == room[id].clients[A]
                relayed ==
                  IF msg.type = "message"
                  THEN [type |-> "message", codename |-> cn,
                        encrypted |-> msg.encrypted, iv |-> msg.iv, timestamp |-> t]
                  ELSE [type |-> "file", codename |-> cn, data |-> msg.data,
                        dataIv |-> msg.dataIv, meta |-> msg.meta,
                        metaIv |-> msg.metaIv, timestamp |-> t]
            IN \A c \in Conns :
                 inbox'[c] = IF c # A /\ c \in Members(id) /\ readyState[c] = "OPEN"
                             THEN Append(inbox[c], relayed)
                             ELSE inbox[c]
    ]_vars

C10_Witness ==
  \E A, B \in Conns :
    /\ A # B
    /\ closure[A].room # NoRoom
    /\ closure[B].room = closure[A].room
    /\ \E e \in Range(inbox[B]) :
         /\ e.type \in {"message", "file"}
         /\ e.codename = closure[A].codename
    /\ \A e \in Range(inbox[A]) : e.type \notin {"message", "file"}


\* C11: a name is registered to at most one room object; an admission under
\* a registered name joins that object (nothing is created, the registry and
\* the timers stay as they are), an admission under an unregistered name
\* registers one new object, and no other room object changes.
C11_OneRoomPerName ==
  /\ [](\A n \in RoomNames : rooms[n] # NoRoom => room[rooms[n]].name = n)
  /\ [][ (nextConn' = nextConn + 1 /\ closure'[nextConn].room # NoRoom) =>
           LET ws == nextConn
               n == closure'[ws].roomName
               id == closure'[ws].room
           IN /\ rooms[n] # NoRoom =>
                   /\ id = rooms[n]
                   /\ rooms' = rooms
                   /\ ttlTimers' = ttlTimers
                   /\ DOMAIN room'[id].clients = Members(id) \cup {ws}
              /\ rooms[n] = NoRoom =>
                   /\ id = ws
                   /\ rooms'[n] = ws
                   /\ DOMAIN room'[id].clients = {ws}
              /\ \A other \in RoomIds \ {id} : room'[other] = room[other]
       ]_vars

C11_Witness ==
  \E c, d \in Conns :
    /\ c < d
    /\ readyState[c] = "OPEN" /\ readyState[d] = "OPEN"
    /\ closure[c].room = c
    /\ closure[d].room = c
    /\ rooms[closure[c].roomName] = c
    /\ Members(c) = {c, d}

\* C12: while a room object stays registered, its passwordHash, ttlMs and
\* createdAt do not change, whatever a later joiner supplies.
C12_RoomSettingsFixed ==
  [][ \A n \in RoomNames :
        (rooms[n] # NoRoom /\ rooms'[n] = rooms[n]) =>
          /\ room'[rooms[n]].passwordHash = room[rooms[n]].passwordHash
          /\ room'[rooms[n]].ttlMs = room[rooms[n]].ttlMs
          /\ room'[rooms[n]].createdAt = room[rooms[n]].createdAt
    ]_vars

C12_Witness ==
  \E id \in RegisteredRooms :
    /\ room[id].passwordHash = "h1"
    /\ room[id].ttlMs = 30 * 60 * 1000
    /\ \E c \in Members(id) : c # id /\ inbox[c] # <<>> /\ Head(inbox[c]).hasPassword

\* C13: a request with a missing, empty or over-long room name is closed
\* with 4001 and changes nothing else: registry, room objects, timers, every
\* inbox and every other socket stay as they are.
C13_InvalidRoomName ==
  [][ nextConn' = nextConn + 1 =>
        \A roomParam \in {Null, "", LongName}, hasPasswordParam \in HasPasswordParams,
           pwdParam \in PwdParams, ttlParam \in TtlParams(nextConn), t \in Times :
          Connection(roomParam, hasPasswordParam, pwdParam, ttlParam, t) =>
            /\ closeCode'[nextConn] = CLOSE_INVALID_ROOM
            /\ readyState'[nextConn] = "CLOSING"
            /\ \A c \in Conns \ {nextConn} :
                 readyState'[c] = readyState[c] /\ closeCode'[c] = closeCode[c]
            /\ UNCHANGED <<rooms, room, ttlTimers, graceTimers, inbox, closure>>
    ]_vars

C13_Witness ==
  \E c \in Conns :
    /\ closeCode[c] = CLOSE_INVALID_ROOM
    /\ readyState[c] = "CLOSING"
    /\ inbox[c] = <<>>
    /\ \E id \in RegisteredRooms : Members(id) # {} /\ ttlTimers[id] # Null

DroppedFrame(msg) ==
  \/ msg = BadJson
  \/ msg.type \notin {"message", "file", "typing", "destroy"}
  \/ msg.type \in {"message", "file"} /\ ~ValidFrame(msg)

\* C14: a frame that does not parse, has an unknown type, or is a message or
\* file frame lacking a required field changes nothing: no inbox, no room
\* object, no timer, no socket state.
C14_DroppedFrame ==
  [][ nframes' = nframes + 1 =>
        \A ws \in Conns, msg \in Frames, t \in Times :
          (DroppedFrame(msg) /\ OnMessage(ws, msg, t)) =>
            UNCHANGED <<rooms, room, ttlTimers, readyState, closeCode, inbox,
                        closure, graceTimers>>
    ]_vars

C14_Witness ==
  /\ nframes = 1
  /\ nextConn = 3
  /\ graceTimers = <<>>
  /\ \E id \in RegisteredRooms :
       /\ Members(id) = {1, 2}
       /\ ttlTimers[id] # Null
       /\ \A c \in {1, 2} :
            /\ readyState[c] = "OPEN"
            /\ \A e \in Range(inbox[c]) : e.type \in {"init", "join"}

C16_RoomEventuallyRemoved ==
  /\ [](\A id \in RegisteredRooms :
          \/ ttlTimers[room[id].timer] = room[id].name
          \/ \E i \in 1..Len(graceTimers) : graceTimers[i].name = room[id].name)
  /\ \A n \in RoomNames, id \in RoomIds : (rooms[n] = id) ~> (rooms[n] # id)

C16_Witness ==
  \E id \in RegisteredRooms :
    /\ ttlTimers[room[id].timer] = Null
    /\ graceTimers # <<>>
    /\ \E c \in Members(id) : readyState[c] = "OPEN"

\* C17: a TTL timeout that fires and unregisters a room does so no earlier
\* than the room's createdAt plus its ttlMs, and a room object that has been
\* unregistered is never registered again.
C17_TtlNotEarlyAndOnce ==
  [][ /\ \A id \in RoomIds :
           (TtlExpire(id) /\ rooms[ttlTimers[id]] # NoRoom) =>
             LET r == room[rooms[ttlTimers[id]]]
             IN clock >= r.createdAt + r.ttlMs
      /\ \A n \in RoomNames :
           (rooms'[n] # rooms[n] /\ rooms'[n] # NoRoom) => rooms'[n] = nextConn
    ]_vars

\* C18: pool codenames held by the members of a room are pairwise distinct
\* and are exactly its used codenames; an admission draws a pool codename no
\* member holds while one is left and a synthetic codename outside the pool
\* once the pool is exhausted, and is never refused for lack of codenames.
C18_PoolThenFallback ==
  /\ [](\A id \in RoomIds :
          /\ \A c, d \in Members(id) :
               (c # d /\ room[id].clients[c] \in CODENAMES) =>
                 room[id].clients[c] # room[id].clients[d]
          /\ room[id].usedCodenames =
               { room[id].clients[c] : c \in Members(id) } \cap CODENAMES)
  /\ [][ nextConn' = nextConn + 1 =>
           /\ \A roomParam \in RoomNames, hasPasswordParam \in HasPasswordParams,
                 pwdParam \in PwdParams, ttlParam \in TtlParams(nextConn), t \in Times :
                ( /\ Connection(roomParam, hasPasswordParam, pwdParam, ttlParam, t)
                  /\ ~(rooms[roomParam] # NoRoom
                       /\ AuthFails(room[rooms[roomParam]], OrDefault(pwdParam, ""))) )
                => closure'[nextConn].room # NoRoom
           /\ closure'[nextConn].room # NoRoom =>
                LET id == closure'[nextConn].room
                    held == { room[id].clients[c] : c \in Members(id) }
                    codename == room'[id].clients[nextConn]
                IN /\ codename \notin held \cap CODENAMES
                   /\ codename = closure'[nextConn].codename
                   /\ IF CODENAMES \ held # {}
                      THEN codename \in CODENAMES
                      ELSE codename \notin CODENAMES
       ]_vars

C18_Witness ==
  \E id \in RegisteredRooms :
    /\ nextConn = PoolSize + 2
    /\ Cardinality(Members(id)) = PoolSize + 1
    /\ \A c \in Members(id) : readyState[c] = "OPEN"
    /\ { room[id].clients[c] : c \in Members(id) } \cap CODENAMES = CODENAMES
    /\ \E c \in Members(id) : room[id].clients[c] \notin CODENAMES

\* C19: the close handler of a socket whose room object is no longer the one
\* registered under its name leaves the registry alone and neither notifies
\* nor closes any member of the room now registered.
C19_StaleCloseIsHarmless ==
  [][ \A ws \in Conns :
        ( /\ closure[ws].room # NoRoom
          /\ readyState[ws] # "CLOSED" /\ readyState'[ws] = "CLOSED"
          /\ rooms[closure[ws].roomName] # closure[ws].room )
        => /\ rooms' = rooms
           /\ \A c \in Conns \ {ws} :
                closure[c].room # closure[ws].room =>
                  inbox'[c] = inbox[c] /\ readyState'[c] = readyState[c]
    ]_vars

\* C20: a destroy frame arriving on a socket whose room object is no longer
\* the one registered under its name schedules no teardown, cancels no timer
\* and delivers nothing.
C20_StaleDestroyIsHarmless ==
  [][ nframes' = nframes + 1 =>
        \A ws \in Conns, t \in Times :
          ( /\ OnMessage(ws, Frame("destroy", Null, Null, Null, Null, Null, Null, Null), t)
            /\ rooms[closure[ws].roomName] # closure[ws].room )
          => UNCHANGED <<rooms, ttlTimers, graceTimers, inbox, readyState>>
    ]_vars


\* C21: every socket the grace teardown closes has been sent the destroyed
\* event with manual = true before.
C21_GraceClosesOnlyNotified ==
  [][ (graceTimers # <<>> /\ graceTimers' = Tail(graceTimers)) =>
        \A c \in Conns :
          (readyState[c] = "OPEN" /\ readyState'[c] = "CLOSING") =>
            \E i \in 1..Len(inbox[c]) : inbox[c][i] = ManualDestroyedEvent
    ]_vars

\* C22: no socket is sent the manual destroyed event twice, and no room
\* object has two grace timeouts scheduled for it.
C22_ManualDestroyIdempotent ==
  /\ \A c \in Conns :
       Cardinality({ i \in 1..Len(inbox[c]) : inbox[c][i] = ManualDestroyedEvent }) <= 1
  /\ \A i, j \in 1..Len(graceTimers) :
       i # j => graceTimers[i].scheduledFor # graceTimers[j].scheduledFor

DestroyFrame == Frame("destroy", Null, Null, Null, Null, Null, Null, Null)

\* C23: a socket is sent destroyed with manual = true only in a step that
\* handles a destroy frame from a member of its room object, and destroyed
\* without the flag only in the step in which the TTL timeout of its own room
\* object fires; that step sends it to every open member and closes it.
C23_DestroyedFlag ==
  [][ /\ \A c \in Conns :
           /\ inbox'[c] = Append(inbox[c], ManualDestroyedEvent) =>
                \E ws \in Members(closure[c].room), t \in Times :
                  /\ closure[ws].room = closure[c].room
                  /\ OnMessage(ws, DestroyFrame, t)
           /\ inbox'[c] = Append(inbox[c], DestroyedEvent) =>
                TtlExpire(closure[c].room)
      /\ \A id \in RegisteredRooms :
           TtlExpire(id) =>
             \A c \in Members(id) :
               readyState[c] = "OPEN" =>
                 /\ inbox'[c] = Append(inbox[c], DestroyedEvent)
                 /\ readyState'[c] = "CLOSING"
    ]_vars

RelayedFrames == { msg \in RoomsFrames : msg.type \in {"message", "file", "typing"} }

\* C24: the step that relays a message, file or typing frame, and the step
\* that admits a joiner, change the inbox of no socket other than the open
\* members of the sender's (joiner's) room object, which were admitted under
\* the same room name; a relay does not change the sender's inbox.
C24_DeliveryScope ==
  [][ /\ nframes' = nframes + 1 =>
           \A ws \in Conns, msg \in RelayedFrames, t \in Times :
             Receive(ws, msg, t) =>
               \A c \in Conns :
                 inbox'[c] # inbox[c] =>
                   /\ c # ws
                   /\ c \in Members(closure[ws].room)
                   /\ readyState[c] = "OPEN"
                   /\ closure[c].roomName = closure[ws].roomName
      /\ (nextConn' = nextConn + 1 /\ closure'[nextConn].room # NoRoom) =>
           \A c \in Conns \ {nextConn} :
             inbox'[c] # inbox[c] =>
               /\ c \in DOMAIN room'[closure'[nextConn].room].clients
               /\ readyState[c] = "OPEN"
               /\ closure[c].roomName = closure'[nextConn].roomName
    ]_vars

C24_Witness ==
  \E a, b \in Conns :
    /\ readyState[a] = "OPEN" /\ readyState[b] = "OPEN"
    /\ closure[a].roomName = "alpha" /\ closure[b].roomName = "beta"
    /\ rooms["alpha"] = closure[a].room /\ rooms["beta"] = closure[b].room
    /\ \E i \in 1..Len(inbox[a]) : inbox[a][i].type \in {"message", "file", "typing"}
    /\ \A i \in 1..Len(inbox[b]) : inbox[b][i].type = "init"

\* what belongs to the room registered under name n
RoomState(n) ==
  [entry |-> rooms[n],
   object |-> IF rooms[n] = NoRoom THEN NoRoomObject ELSE room[rooms[n]],
   ttl |-> { id \in RoomIds : ttlTimers[id] = n },
   grace |-> LET ForName(g) == g.name = n IN SelectSeq(graceTimers, ForName),
   sockets |-> [c \in { d \in Conns : closure[d].roomName = n } |->
                  <<readyState[c], inbox[c]>>]]

\* C25: a join, a frame, a disconnect, a TTL timeout and a grace timeout
\* that concern one room name leave the registry entry, the room object
\* (members, usedCodenames, passwordHash), the timers and the sockets of
\* every other room name as they are.
C25_RoomsIndependent ==
  [][ \A n \in RoomNames :
        /\ \A roomParam \in (RoomNames \cup {Null}) \ {n}, ttlParam \in TtlParams(nextConn),
              t \in Times :
             Connection(roomParam, Null, Null, ttlParam, t) => RoomState(n)' = RoomState(n)
        /\ \A ws \in Conns :
             (closure[ws].room # NoRoom /\ closure[ws].roomName # n) =>
               /\ \A msg \in RoomsFrames, t \in Times :
                    Receive(ws, msg, t) => RoomState(n)' = RoomState(n)
               /\ OnClose(ws) => RoomState(n)' = RoomState(n)
        /\ \A id \in RoomIds :
             (ttlTimers[id] # n /\ TtlExpire(id)) => RoomState(n)' = RoomState(n)
        /\ (graceTimers # <<>> /\ Head(graceTimers).name # n /\ GraceExpire) =>
             RoomState(n)' = RoomState(n)
    ]_vars

C25_Witness ==
  /\ rooms["alpha"] = NoRoom
  /\ \E c \in Conns : closure[c].roomName = "alpha" /\ readyState[c] = "CLOSING"
                      /\ closeCode[c] = CLOSE_NO_STATUS
  /\ \E id \in RegisteredRooms :
       /\ room[id].name = "beta"
       /\ ttlTimers[id] = "beta"
       /\ id < nextConn - 1
       /\ \A c \in Members(id) : readyState[c] = "OPEN"


\* the events a step appends to the inbox of socket c
Gained(c) == SubSeq(inbox'[c], Len(inbox[c]) + 1, Len(inbox'[c]))

\* C26: the close handler of member M runs once; it sends one leave event
\* with M's codename and the member count without M to each remaining open
\* member of M's room object, and a leave event to nobody else.
C26_LeaveBroadcast ==
  [][ \A ws \in Conns :
        /\ readyState[ws] = "CLOSED" => readyState'[ws] = "CLOSED"
        /\ ( /\ closure[ws].room # NoRoom
             /\ readyState[ws] # "CLOSED" /\ readyState'[ws] = "CLOSED" )
           => LET id == closure[ws].room
                  rest == Members(id) \ {ws}
                  leave == LeaveEvent(closure[ws].codename, Cardinality(rest))
              IN /\ ws \in Members(id)
                 /\ rest # {} => DOMAIN room'[id].clients = rest
                 /\ \A c \in Conns \ {ws} :
                      IF c \in rest /\ readyState[c] = "OPEN"
                      THEN Gained(c) = <<leave>>
                      ELSE \A i \in 1..Len(Gained(c)) : Gained(c)[i].type # "leave"
    ]_vars

C26_Witness ==
  \E A \in Conns :
    /\ readyState[A] = "OPEN"
    /\ nextConn = 3
    /\ closure[A].room # NoRoom
    /\ Members(closure[A].room) = {A}
    /\ inbox[A][Len(inbox[A])].type = "leave"
    /\ inbox[A][Len(inbox[A])].participants = 1
    /\ inbox[A][Len(inbox[A])].codename # closure[A].codename

\* C27: the init event and the join events of an admission carry the size
\* of the member map with the joiner in it, and a leave event carries the
\* size of the member map without the leaver.
C27_ParticipantCounts ==
  [][ /\ (nextConn' = nextConn + 1 /\ closure'[nextConn].room # NoRoom) =>
           LET ws == nextConn
               n == Cardinality(DOMAIN room'[closure'[ws].room].clients)
           IN /\ ws \in DOMAIN room'[closure'[ws].room].clients
              /\ Len(inbox'[ws]) = 1
              /\ inbox'[ws][1].type = "init"
              /\ inbox'[ws][1].participants = n
              /\ \A c \in Conns \ {ws} :
                   \A i \in 1..Len(Gained(c)) :
                     Gained(c)[i].type = "join" /\ Gained(c)[i].participants = n
      /\ \A ws \in Conns :
           ( /\ closure[ws].room # NoRoom
             /\ readyState[ws] # "CLOSED" /\ readyState'[ws] = "CLOSED" )
           => \A c \in Conns \ {ws} :
                \A i \in 1..Len(Gained(c)) :
                  Gained(c)[i].type = "leave" =>
                    /\ ws \notin DOMAIN room'[closure[ws].room].clients
                    /\ Gained(c)[i].participants =
                         Cardinality(DOMAIN room'[closure[ws].room].clients)
    ]_vars

C27_Witness ==
  \E A, B \in Conns :
    /\ A # B
    /\ closure[A].room # NoRoom /\ closure[B].room = closure[A].room
    /\ Members(closure[A].room) = {A, B}
    /\ Len(inbox[A]) = 4
    /\ inbox[A][1].type = "init" /\ inbox[A][1].participants = 1
    /\ inbox[A][2].type = "join" /\ inbox[A][2].participants = 2
    /\ inbox[A][3].type = "join" /\ inbox[A][3].participants = 3
    /\ inbox[A][4].type = "leave" /\ inbox[A][4].participants = 2
    /\ inbox[B] # <<>> /\ inbox[B][1].type = "init" /\ inbox[B][1].participants \in {2, 3}

\* C28: the init event of an admission reports the createdAt of the room
\* object and createdAt + ttlMs as expiresAt; an admission to an existing
\* room leaves createdAt, ttlMs and the time its TTL timeout is due as they
\* are, so all init events of one room object agree.
C28_InitTimes ==
  /\ [](\A c, d \in Conns :
          ( /\ closure[c].room # NoRoom /\ closure[d].room = closure[c].room
            /\ inbox[c] # <<>> /\ inbox[d] # <<>> )
          => /\ inbox[c][1].createdAt = inbox[d][1].createdAt
             /\ inbox[c][1].expiresAt = inbox[d][1].expiresAt)
  /\ [][ (nextConn' = nextConn + 1 /\ closure'[nextConn].room # NoRoom) =>
           LET ws == nextConn
               id == closure'[ws].room
           IN /\ inbox'[ws][1].createdAt = room'[id].createdAt
              /\ inbox'[ws][1].expiresAt = room'[id].createdAt + room'[id].ttlMs
              /\ id # ws =>
                   /\ room'[id].createdAt = room[id].createdAt
                   /\ room'[id].ttlMs = room[id].ttlMs
                   /\ ttlDue'[id] = ttlDue[id]
              /\ id = ws =>
                   /\ room'[id].createdAt = clock
                   /\ ttlDue'[id] = room'[id].createdAt + room'[id].ttlMs
       ]_vars

C28_Witness ==
  /\ clock > 1
  /\ rooms["alpha"] = 1
  /\ {1, 2} \subseteq Members(1)
  /\ inbox[2] # <<>>
  /\ inbox[2][1].createdAt = 1
  /\ inbox[2][1].expiresAt = 1 + 30 * 60 * 1000
  /\ inbox[1][1].expiresAt = inbox[2][1].expiresAt

\* C29: the first event in the inbox of an admitted socket is its init
\* event and no later one is; a socket that was not admitted receives no
\* room event.
C29_InitFirst ==
  \A c \in Conns :
    /\ (closure[c].room # NoRoom /\ readyState[c] # "CLOSED") =>
         /\ inbox[c] # <<>>
         /\ inbox[c][1].type = "init"
         /\ inbox[c][1].codename = closure[c].codename
         /\ \A i \in 2..Len(inbox[c]) : inbox[c][i].type # "init"
    /\ closure[c].room = NoRoom =>
         \A i \in 1..Len(inbox[c]) : inbox[c][i].type = "auth_error"

C29_Witness ==
  \E c \in Conns :
    /\ closure[c].room # NoRoom
    /\ Len(inbox[c]) >= 4
    /\ inbox[c][1].type = "init"
    /\ { inbox[c][i].type : i \in 2..Len(inbox[c]) } = {"join", "leave", "destroyed"}

\* C30: the close handler of member M removes M's codename and nothing
\* else from the room's usedCodenames: a pool codename M held is unused
\* afterwards, and every remaining member keeps its codename, a pool
\* codename among them staying used.
C30_CodenameRelease ==
  [][ \A ws \in Conns :
        ( /\ closure[ws].room # NoRoom
          /\ readyState[ws] # "CLOSED" /\ readyState'[ws] = "CLOSED"
          /\ Members(closure[ws].room) \ {ws} # {} )
        => LET id == closure[ws].room
               codename == closure[ws].codename
           IN /\ codename = room[id].clients[ws]
              /\ room'[id].usedCodenames = room[id].usedCodenames \ {codename}
              /\ codename \in CODENAMES => codename \in CODENAMES \ room'[id].usedCodenames
              /\ \A c \in Members(id) \ {ws} :
                   /\ room'[id].clients[c] = room[id].clients[c]
                   /\ room[id].clients[c] \in CODENAMES =>
                        room[id].clients[c] \in room'[id].usedCodenames
    ]_vars

C30_Witness ==
  \E id \in RegisteredRooms :
    /\ id = 1
    /\ Members(id) = {2, 3}
    /\ room[id].clients[2] \notin CODENAMES
    /\ room[id].clients[3] \in CODENAMES
    /\ room[id].usedCodenames = {room[id].clients[3]}


\* C31: a room is created with a truthy passwordHash exactly when the
\* creator sent hasPassword=1 and a non-empty pwdHash, the hash stored being
\* the one sent; otherwise the room is open, and a request with a valid name
\* for an open room is admitted whatever hasPassword and pwdHash it carries.
C31_PasswordAtCreation ==
  [][ nextConn' = nextConn + 1 =>
        \A roomParam \in JoinNames, hasPasswordParam \in HasPasswordParams,
           pwdParam \in PwdParams, ttlParam \in TtlParams(nextConn), t \in Times :
          Connection(roomParam, hasPasswordParam, pwdParam, ttlParam, t) =>
            /\ rooms[roomParam] = NoRoom =>
                 /\ rooms'[roomParam] = nextConn
                 /\ IF hasPasswordParam = "1" /\ Truthy(pwdParam)
                    THEN room'[nextConn].passwordHash = pwdParam
                    ELSE ~Truthy(room'[nextConn].passwordHash)
            /\ (rooms[roomParam] # NoRoom /\ ~Truthy(room[rooms[roomParam]].passwordHash)) =>
                 /\ closure'[nextConn].room = rooms[roomParam]
                 /\ nextConn \in DOMAIN room'[rooms[roomParam]].clients
                 /\ readyState'[nextConn] = "OPEN"
    ]_vars

C31_Witness ==
  \E id \in RegisteredRooms :
    /\ room[id].passwordHash = ""
    /\ \E c \in Members(id) : c # id /\ readyState[c] = "OPEN"

\* C32: the ttlMs a creation stores is the creator's ttl parameter in
\* minutes when the parameter is one of "10", "15", "30", and the default of
\* 10 minutes for every other parameter.
C32_TtlFromParameter ==
  [][ nextConn' = nextConn + 1 =>
        \A roomParam \in JoinNames, hasPasswordParam \in HasPasswordParams,
           pwdParam \in {Null, "h1"}, ttlParam \in AllTtlParams, t \in Times :
          ( /\ Connection(roomParam, hasPasswordParam, pwdParam, ttlParam, t)
            /\ rooms[roomParam] = NoRoom )
          => room'[nextConn].ttlMs =
               ( CASE ttlParam = "10" -> 10
                   [] ttlParam = "15" -> 15
                   [] ttlParam = "30" -> 30
                   [] OTHER -> DEFAULT_TTL ) * 60 * 1000
    ]_vars

\* C33: a room-info lookup changes nothing but the response, and answers
\* 400 for a missing name, exists = false for a name without a registered
\* room, and otherwise hasPassword and the number of members.
C33_RoomInfoReadOnly ==
  [][ /\ \A roomParam \in NameParams :
           RoomInfo(roomParam) =>
             /\ UNCHANGED <<rooms, room, ttlTimers, readyState, closeCode, inbox, closure,
                            graceTimers, ttlDue>>
             /\ ~Truthy(roomParam) => response'.status = 400
             /\ (Truthy(roomParam) /\ roomParam \notin (RoomNames \ { n \in RoomNames : rooms[n] = NoRoom }))
                  => (response'.exists = FALSE /\ response'.hasPassword = FALSE)
             /\ (roomParam \in RoomNames /\ rooms[roomParam] # NoRoom) =>
                  /\ response'.exists = TRUE
                  /\ response'.hasPassword = Truthy(room[rooms[roomParam]].passwordHash)
                  /\ response'.participants = Cardinality(Members(rooms[roomParam]))
      /\ response' # response =>
           UNCHANGED <<rooms, room, ttlTimers, readyState, closeCode, inbox, closure,
                       graceTimers, ttlDue>>
    ]_vars

C33_Witness ==
  /\ response.status = 200
  /\ response.exists = TRUE
  /\ response.hasPassword = TRUE
  /\ response.participants = 2
  /\ \E id \in RegisteredRooms : Cardinality(Members(id)) = 2 /\ ttlTimers[id] # Null

\* C34: for a name without a registered room destroyRoom and
\* manualDestroyRoom return the state they were given, and a TTL timeout
\* that fires for such a name changes nothing but its own handle.
C34_DestroyAbsentRoom ==
  /\ [](\A n \in RoomNames :
          rooms[n] = NoRoom =>
            /\ destroyRoom(Cur, n) = Cur
            /\ manualDestroyRoom(Cur, n) = Cur)
  /\ [][ \A id \in RoomIds :
           (ttlTimers[id] # Null /\ rooms[ttlTimers[id]] = NoRoom /\ TtlExpire(id)) =>
             /\ UNCHANGED <<rooms, room, readyState, closeCode, inbox, closure, graceTimers>>
             /\ ttlTimers' = [ttlTimers EXCEPT ![id] = Null]
       ]_vars

C34_Witness ==
  /\ rooms["alpha"] = NoRoom
  /\ ttlTimers = [id \in RoomIds |-> Null]
  /\ nframes = 1
  /\ graceTimers = <<>>
  /\ \E c \in Conns : /\ closure[c].room # NoRoom
                      /\ readyState[c] = "CLOSING"
                      /\ closeCode[c] = CLOSE_NO_STATUS
                      /\ inbox[c][Len(inbox[c])] = DestroyedEvent

\* ------------------------------------------------------ the client's claims
LiveSockets == { i \in Sockets : browser.socket[i].readyState \in {"OPEN", "CONNECTING"} }

\* a step in which the reconnect callback calls connect() and connect()
\* goes on to hashPassword
TimerReconnect ==
  browser'.timers < browser.timers /\ browser'.hashing > browser.hashing

\* a step in which the visibilitychange handler does so
VisibilityReconnect ==
  browser'.isTabHidden # browser.isTabHidden /\ browser'.hashing > browser.hashing

\* C35: the client never holds more than one WebSocket that is open or
\* connecting, whatever calls of connect() overlap.
C35_AtMostOneSocket == Cardinality(LiveSockets) <= 1

\* the socket ws refers to received the destroyed event of a TTL expiry and
\* has closed
ExpiredAndClosed ==
  /\ browser.ws # 0
  /\ browser.socket[browser.ws].last = "destroyed"
  /\ browser.socket[browser.ws].readyState = "CLOSED"

\* C36: once the socket has received the destroyed event of a TTL expiry and
\* has closed, neither the reconnect timer nor the visibility handler starts
\* a connection.
C36_NoReconnectAfterExpiry ==
  [][ExpiredAndClosed => ~(TimerReconnect \/ VisibilityReconnect)]_vars

\* C37: after a close with code 4001 or 4003, and until the user submits a
\* password, neither the reconnect timer nor the visibility handler starts a
\* connection.
C37_NoReconnectAfterFatalClose ==
  [][browser.fatal => ~(TimerReconnect \/ VisibilityReconnect)]_vars

\* C38: the reconnect delay is always 1000, 2000, 4000 or 8000 ms and at most
\* one reconnect callback is pending; a firing reconnect doubles the delay up
\* to 8000, and an opening socket resets it to 1000.
C38_ReconnectBackoff ==
  /\ [](/\ browser.reconnectDelay \in {1000, 2000, 4000, 8000}
        /\ browser.timers <= 1
        /\ browser.reconnectTimer <=> browser.timers = 1)
  /\ [][/\ browser'.timers < browser.timers
             => browser'.reconnectDelay = Min(2 * browser.reconnectDelay, 8000)
        /\ \A i \in Sockets :
             (browser.socket[i].readyState = "CONNECTING"
              /\ browser'.socket[i].readyState = "OPEN")
             => browser'.reconnectDelay = 1000]_vars

\* the delay has reached its cap, a reconnect is pending, and the last socket
\* closed without ever opening
C38_Witness ==
  /\ browser.reconnectDelay = 8000
  /\ browser.timers = 1
  /\ browser.ws # 0
  /\ browser.socket[browser.ws].readyState = "CLOSED"

====
